---------------------------- MODULE Spec2Model ----------------------------
(***************************************************************************)
(* Model of Adafruit_Files/sudoku-gfx.py: the Sudoku solving engine        *)
(* (deduce, solveboard, solvenext), the strict and the statistical rating  *)
(* (checkpuzzle, ratepuzzle), the puzzle generator (makepuzzle) and the    *)
(* board text parser (parseboard).                                         *)
(*                                                                         *)
(* The source works on a 9x9 grid (boxes of 3x3, 81 cells, 9-bit masks).   *)
(* Every definition below is written for a grid of BoxSize x BoxSize boxes *)
(* and is the source's definition when BoxSize = 3.  The model is checked  *)
(* with BoxSize = 2: a 4x4 grid, 16 cells, 4-bit masks.                    *)
(*                                                                         *)
(* Python lists are 0-based: a board is a function on 0..Cells-1, a Python *)
(* list of pairs is a sequence of <<pos, n>> tuples.  The search stack is  *)
(* a sequence whose last element is the top (list.append / list.pop).      *)
(***************************************************************************)
EXTENDS Integers, Sequences, FiniteSets, TLC

\* ------------------------------------------------------------ board model

\* Python's None in a board cell.
None == -1

\* Side of a box (3 in the source, see the header).
BoxSize == 2

Side == BoxSize * BoxSize

Cells == Side * Side

\* 511 in the source: all Side bits set.
FullMask == 2^Side - 1

Lines == 0 .. (Side - 1)

Positions == 0 .. (Cells - 1)

\* Python's None where a board (or no board) is returned.
NoBoard == << >>

\* [None] * 81
EmptyBoard == [pos \in Positions |-> None]

RECURSIVE BitAnd(_, _)
BitAnd(a, b) ==
  IF a = 0 \/ b = 0 THEN 0
  ELSE (a % 2) * (b % 2) + 2 * BitAnd(a \div 2, b \div 2)

RECURSIVE BitOr(_, _)
BitOr(a, b) ==
  IF a = 0 THEN b
  ELSE IF b = 0 THEN a
  ELSE (IF a % 2 = 1 \/ b % 2 = 1 THEN 1 ELSE 0) + 2 * BitOr(a \div 2, b \div 2)

RECURSIVE BitXor(_, _)
BitXor(a, b) ==
  IF a = 0 THEN b
  ELSE IF b = 0 THEN a
  ELSE ((a + b) % 2) + 2 * BitXor(a \div 2, b \div 2)

\* The tuples (0,3,6,27,30,33,54,57,60) and (0,1,2,9,10,11,18,19,20) of posfor.
BoxOrigin == [x \in Lines |-> (x \div BoxSize) * BoxSize * Side + (x % BoxSize) * BoxSize]

BoxOffset == [y \in Lines |-> (y \div BoxSize) * Side + (y % BoxSize)]

\* posfor were the boxes read as rows.
posfornobox(x, y, axis) == IF axis = 1 THEN y * Side + x ELSE x * Side + y

posfor(x, y, axis) ==
  IF axis = 0 THEN x * Side + y
  ELSE IF axis = 1 THEN y * Side + x
  ELSE BoxOrigin[x] + BoxOffset[y]

\* The loop of axismissing: bits after the cells y' < y of the line.
RECURSIVE axisbits(_, _, _, _)
axisbits(board, x, axis, y) ==
  IF y = 0 THEN 0
  ELSE LET bits == axisbits(board, x, axis, y - 1)
           e == board[posfor(x, y - 1, axis)]
       IN  IF e # None THEN BitOr(bits, 2^e) ELSE bits

axismissing(board, x, axis) == BitXor(FullMask, axisbits(board, x, axis, Side))

\* [y for y in range(9) if 0 != bits & 1 << y], for the y below top.
RECURSIVE bitsbelow(_, _)
bitsbelow(bits, top) ==
  IF top = 0 THEN << >>
  ELSE IF BitAnd(bits, 2^(top - 1)) # 0
       THEN Append(bitsbelow(bits, top - 1), top - 1)
       ELSE bitsbelow(bits, top - 1)

listbits(bits) == bitsbelow(bits, Side)

\* The needed list of figurebits: entry axis * Side + x is the line's missing mask.
neededbits(board) ==
  [k \in 0 .. (3 * Side - 1) |-> axismissing(board, k % Side, k \div Side)]

\* The x for which figurebits' loops reach pos on the axis: posfor(x, y, axis) = pos.
LineOf ==
  [axis \in 0 .. 2 |->
     [pos \in Positions |->
        CHOOSE x \in Lines : \E y \in Lines : posfor(x, y, axis) = pos]]

\* The first mask of a cell were it 511 for filled cells too.
startbitsfilledtoo(e) == FullMask

\* e is None and 511 or 0: the mask a cell starts with in figurebits.
startbits(e) == IF e = None THEN FullMask ELSE 0

\* The allowed list of figurebits after its loops have run over the first axes
\* axes: each pass over an axis reaches every pos once.
RECURSIVE allowedbits(_, _, _)
allowedbits(board, needed, axes) ==
  IF axes = 0 THEN [pos \in Positions |-> startbits(board[pos])]
  ELSE LET prev == allowedbits(board, needed, axes - 1)
           axis == axes - 1
       IN  [pos \in Positions |->
              BitAnd(prev[pos], needed[axis * Side + LineOf[axis][pos]])]

figurebits(board) ==
  LET needed == neededbits(board)
  IN  [allowed |-> allowedbits(board, needed, 3), needed |-> needed]


\* --------------------------------------------------------------- deduce

\* A Python loop "for k in range(lo, hi)" with body Step: the locals after the
\* loop, from the locals st before it.  The range is run by halves, the first
\* half before the second (the CASE makes TLC finish the first half before it
\* starts the second, so that the evaluation does not nest once per iteration).
RECURSIVE ForRange(_, _, _, _)
ForRange(Step(_, _), st, lo, hi) ==
  IF hi <= lo THEN st
  ELSE IF hi = lo + 1 THEN Step(st, lo)
  ELSE LET mid == (lo + hi) \div 2
           left == ForRange(Step, st, lo, mid)
       IN  CASE left = left -> ForRange(Step, left, mid, hi)

\* deduce's guess and return value: None, or a list of (pos, n) pairs
\* ([] is the list with no pairs).
NoGuess == [none |-> TRUE, opts |-> << >>]

Guess(t) == [none |-> FALSE, opts |-> t]

\* pickbetter were the longer list the better one.
pickworse(b, c, t) ==
  IF b.none \/ Len(t) > Len(b.opts) THEN {[guess |-> Guess(t), count |-> 1]}
  ELSE IF Len(t) < Len(b.opts) THEN {[guess |-> b, count |-> c]}
  ELSE {IF r = 0 THEN [guess |-> Guess(t), count |-> c + 1]
                 ELSE [guess |-> b, count |-> c + 1] : r \in 0 .. c}

\* The (guess, count) pairs pickbetter can return; random.randint(0, c) draws r.
pickbetter(b, c, t) ==
  IF b.none \/ Len(t) < Len(b.opts) THEN {[guess |-> Guess(t), count |-> 1]}
  ELSE IF Len(t) > Len(b.opts) THEN {[guess |-> b, count |-> c]}
  ELSE {IF r = 0 THEN [guess |-> Guess(t), count |-> c + 1]
                 ELSE [guess |-> b, count |-> c + 1] : r \in 0 .. c}

\* guess, count = pickbetter(guess, count, t) for every value the draws so far
\* can have left in (guess, count).
pickall(gcs, t) == UNION {pickbetter(gc.guess, gc.count, t) : gc \in gcs}

\* The locals of one pass of deduce's while loop: the board (mutated in place),
\* stuck, the possible (guess, count) values, and whether the pass hit return [].
PassStart(board) ==
  [board |-> board, stuck |-> TRUE,
   gcs |-> {[guess |-> NoGuess, count |-> 0]}, contra |-> FALSE]

\* The body of "for pos in range(81)" without "if board[pos] is None".
nakedstepunguarded(st, allowed, pos) ==
  IF st.contra THEN st
  ELSE LET numbers == listbits(allowed[pos])
       IN  IF Len(numbers) = 0 THEN [st EXCEPT !.contra = TRUE]
           ELSE IF Len(numbers) = 1
                THEN [st EXCEPT !.board[pos] = numbers[1], !.stuck = FALSE]
           ELSE IF st.stuck
                THEN [st EXCEPT !.gcs =
                        pickall(st.gcs, [i \in 1 .. Len(numbers) |-> <<pos, numbers[i]>>])]
           ELSE st

\* Body of "for pos in range(81)" for one pos.
nakedstep(st, allowed, pos) ==
  IF st.contra \/ st.board[pos] # None THEN st
  ELSE LET numbers == listbits(allowed[pos])
       IN  IF Len(numbers) = 0 THEN [st EXCEPT !.contra = TRUE]
           ELSE IF Len(numbers) = 1
                THEN [st EXCEPT !.board[pos] = numbers[1], !.stuck = FALSE]
           ELSE IF st.stuck
                THEN [st EXCEPT !.gcs =
                        pickall(st.gcs, [i \in 1 .. Len(numbers) |-> <<pos, numbers[i]>>])]
           ELSE st

\* "for pos in range(81)": the naked singles loop.
nakedpass(st, allowed) ==
  ForRange(LAMBDA s, pos : nakedstep(s, allowed, pos), st, 0, Cells)

\* spots after "for y in range(9)" has run over the y' < y.
RECURSIVE spotsfor(_, _, _, _, _)
spotsfor(allowed, x, axis, n, y) ==
  IF y = 0 THEN << >>
  ELSE LET spots == spotsfor(allowed, x, axis, n, y - 1)
           pos == posfor(x, y - 1, axis)
       IN  IF BitAnd(allowed[pos], 2^n) # 0 THEN Append(spots, pos) ELSE spots

\* The body of "for n in numbers" were a number without a spot passed over.
hiddenstepblind(st, allowed, x, axis, n) ==
  IF st.contra THEN st
  ELSE LET spots == spotsfor(allowed, x, axis, n, Side)
       IN  IF Len(spots) = 0 THEN st
           ELSE IF Len(spots) = 1
                THEN [st EXCEPT !.board[spots[1]] = n, !.stuck = FALSE]
           ELSE IF st.stuck
                THEN [st EXCEPT !.gcs =
                        pickall(st.gcs, [i \in 1 .. Len(spots) |-> <<spots[i], n>>])]
           ELSE st

\* Body of "for n in numbers" for one n.
hiddenstep(st, allowed, x, axis, n) ==
  IF st.contra THEN st
  ELSE LET spots == spotsfor(allowed, x, axis, n, Side)
       IN  IF Len(spots) = 0 THEN [st EXCEPT !.contra = TRUE]
           ELSE IF Len(spots) = 1
                THEN [st EXCEPT !.board[spots[1]] = n, !.stuck = FALSE]
           ELSE IF st.stuck
                THEN [st EXCEPT !.gcs =
                        pickall(st.gcs, [i \in 1 .. Len(spots) |-> <<spots[i], n>>])]
           ELSE st

\* "for n in numbers" for the line x of the axis.
hiddenline(st, allowed, numbers, x, axis) ==
  ForRange(LAMBDA s, i : hiddenstep(s, allowed, x, axis, numbers[i + 1]),
           st, 0, Len(numbers))

\* "for axis in range(3): for x in range(9)": the hidden singles loops, line
\* k being the line x = k % Side of the axis k \div Side.
hiddenpass(st, allowed, needed) ==
  ForRange(LAMBDA s, k : hiddenline(s, allowed, listbits(needed[k]),
                                    k % Side, k \div Side),
           st, 0, 3 * Side)

\* One pass of the while loop, up to its return or its end.
deducepass(board) ==
  LET fb == figurebits(board)
      st == nakedpass(PassStart(board), fb.allowed)
      fb2 == IF st.stuck THEN fb ELSE figurebits(st.board)
  IN  IF st.contra THEN st ELSE hiddenpass(st, fb2.allowed, fb2.needed)

\* random.shuffle(guess): every order of the list.
shuffle(t) ==
  {[i \in 1 .. Len(t) |-> t[p[i]]] : p \in Permutations(1 .. Len(t))}

\* deduce(board): the board as deduce leaves it and the value it returns, for
\* every outcome of the random draws.
RECURSIVE deduce(_)
deduce(board) ==
  LET st == deducepass(board)
  IN  IF st.contra THEN {[board |-> st.board, guesses |-> Guess(<< >>)]}
      ELSE IF st.stuck
           THEN UNION {IF gc.guess.none
                       THEN {[board |-> st.board, guesses |-> NoGuess]}
                       ELSE {[board |-> st.board, guesses |-> Guess(t)] :
                               t \in shuffle(gc.guess.opts)} : gc \in st.gcs}
      ELSE deduce(st.board)

\* ------------------------------------------------ boards and clue lists

\* boardforentries were each digit stored as the next one.
boardforentriesnext(entries) ==
  [pos \in Positions |->
     IF \E i \in 1 .. Len(entries) : entries[i][1] = pos
     THEN LET i == CHOOSE i \in 1 .. Len(entries) :
                     /\ entries[i][1] = pos
                     /\ \A j \in (i + 1) .. Len(entries) : entries[j][1] # pos
          IN  (entries[i][2] + 1) % Side
     ELSE None]

\* boardforentries(entries): later entries overwrite earlier ones.
boardforentries(entries) ==
  ForRange(LAMBDA board, i : [board EXCEPT ![entries[i + 1][1]] = entries[i + 1][2]],
           EmptyBoard, 0, Len(entries))

\* boardmatches were any two boards to match.
boardmatchesany(b1, b2) == TRUE

\* boardmatches(b1, b2)
boardmatches(b1, b2) == \A i \in Positions : b1[i] = b2[i]

\* ------------------------------------------------------- bounds and inputs

\* The input boards blank any subset of the first Window cells of a solved grid.
Window == 7

\* The input boards overwrite none or one of the first MaxCorrupt cells.
MaxCorrupt == 2

\* The caller makes at most MaxCalls calls: solveboard, then solvenext on the
\* stack the previous call returned.
MaxCalls == 4

\* Two solved grids: the shifted-rows pattern and its transpose.
GridA == [pos \in Positions |->
            LET r == pos \div Side
                c == pos % Side
            IN  (BoxSize * (r % BoxSize) + (r \div BoxSize) + c) % Side]

GridB == [pos \in Positions |-> GridA[(pos % Side) * Side + (pos \div Side)]]

Grids == {GridA, GridB}

\* Grid g with cell k - 1 overwritten by the next digit (k = 0: g itself).
Corrupted(g, k) ==
  IF k = 0 THEN g ELSE [g EXCEPT ![k - 1] = (g[k - 1] + 1) % Side]

Blanked(g, mask) == [pos \in Positions |-> IF pos \in mask THEN None ELSE g[pos]]

\* Well filled boards: solved, with one or several completions, with a digit
\* standing twice, or without completion.
WindowInputs ==
  {Blanked(Corrupted(g, k), mask) :
     g \in Grids, k \in 0 .. MaxCorrupt, mask \in SUBSET (0 .. (Window - 1))}

\* Five clues with three completions: some guesses of the search run into a
\* contradiction and the search backtracks to a solution.
SparseBoard ==
  boardforentries(<< <<1, 1>>, <<2, 0>>, <<7, 1>>, <<9, 2>>, <<11, 0>> >>)

\* Six clues, the same digit in every one, twice in rows, columns and boxes:
\* deduce only finds the contradiction after a guess.
TwiceBoard ==
  boardforentries(<< <<0, 0>>, <<3, 0>>, <<4, 0>>, <<6, 0>>, <<14, 0>>, <<15, 0>> >>)

Inputs == WindowInputs \cup {SparseBoard, TwiceBoard}

\* ------------------------------------------------------------------ state

VARIABLES
  original,    \* solveboard's argument
  remembered,  \* the search stack: solveboard's track, solvenext's remembered
  answer,      \* the board the last solveboard / solvenext call returned, or None
  spc,         \* the search's position: "idle", "loop" (in solvenext's while), "ret"
  returned,    \* history: the answers of the calls made on this search, in order
  chk,         \* checkpuzzle's activation: arguments, locals, position, result
  rate,        \* ratepuzzle's activation
  make,        \* makepuzzle's activation
  parse        \* parseboard's argument and result

searchVars == <<original, remembered, answer, spc, returned>>

callerVars == <<chk, rate, make, parse>>

vars == <<original, remembered, answer, spc, returned, chk, rate, make, parse>>

Idle == [pc |-> "idle"]

\* A frame were the count of the guesses tried not kept.
FrameRestart(guesses, c, board) == [guesses |-> guesses, c |-> 0, board |-> board]

\* A frame of the search stack: the tuple (guesses, c, board).
Frame(guesses, c, board) == [guesses |-> guesses, c |-> c, board |-> board]

SearchIdle ==
  /\ remembered = << >>
  /\ answer = NoBoard
  /\ spc = "idle"
  /\ returned = << >>

\* ----------------------------------------------------- solveboard, solvenext

\* solveboard were it to return its track when deduce returns [], without
\* entering solvenext.
solveboardnoloop(orig) ==
  /\ original' = orig
  /\ \E r \in deduce(orig) :
       IF r.guesses.none
       THEN /\ remembered' = << >>
            /\ answer' = r.board
            /\ spc' = "ret"
            /\ returned' = <<r.board>>
       ELSE IF r.guesses.opts = << >>
            THEN /\ remembered' = <<[guesses |-> << >>, c |-> 0, board |-> r.board]>>
                 /\ answer' = NoBoard
                 /\ spc' = "ret"
                 /\ returned' = <<NoBoard>>
       ELSE /\ remembered' = <<[guesses |-> r.guesses.opts, c |-> 0, board |-> r.board]>>
            /\ answer' = NoBoard
            /\ spc' = "loop"
            /\ returned' = << >>

\* board = original, without list(): deduce writes to the caller's list.
argumentshared(orig, board) == board

\* The caller's list once deduce has worked on board.  board = list(original)
\* is a new list, so nothing deduce writes reaches the caller's.
argumentheld(orig, board) == orig

\* solveboard(orig) up to its return or its entry into solvenext's loop.
solveboard(orig) ==
  \E r \in deduce(orig) :
    /\ original' = argumentheld(orig, r.board)
    /\ IF r.guesses.none
       THEN /\ remembered' = << >>
            /\ answer' = r.board
            /\ spc' = "ret"
            /\ returned' = <<r.board>>
       ELSE /\ remembered' = <<Frame(r.guesses.opts, 0, r.board)>>
            /\ answer' = NoBoard
            /\ spc' = "loop"
            /\ returned' = << >>

\* solvenext(remembered) called on the stack the last call returned.
solvenext ==
  /\ spc' = "loop"
  /\ answer' = NoBoard
  /\ UNCHANGED <<original, remembered, returned>>

\* while len(remembered) > 0 fails: return ([], None).
SolveNextEmpty ==
  /\ spc = "loop"
  /\ Len(remembered) = 0
  /\ remembered' = << >>
  /\ answer' = NoBoard
  /\ spc' = "ret"
  /\ returned' = Append(returned, NoBoard)
  /\ UNCHANGED <<original, chk, rate, make, parse>>

\* The copy with the guess dropped: workspace = list(board) alone.
guessdropped(board, pos, n) == board

\* workspace = list(board); pos, n = guesses[c]; workspace[pos] = n.
guessed(board, pos, n) == [board EXCEPT ![pos] = n]

\* workspace = board, without list(): the frame's board and the workspace are
\* one list, so what deduce writes to the workspace is written to the frame.
boardshared(board, workspace) == workspace

\* The list a frame holds, once deduce has worked on the workspace made from
\* it.  list(board) is a new list, so nothing written to the workspace reaches
\* the frame's board.
boardheld(board, workspace) == board

\* One turn of the while loop.  pop; if c >= len(guesses): continue.  Otherwise
\* push the frame back with c + 1; copy the board, apply guesses[c], deduce;
\* return the solved board or push the new frame.
SolveNextTurn ==
  /\ spc = "loop"
  /\ Len(remembered) > 0
  /\ LET top == remembered[Len(remembered)]
         rest == SubSeq(remembered, 1, Len(remembered) - 1)
     IN  IF top.c >= Len(top.guesses)
         THEN /\ remembered' = rest
              /\ UNCHANGED <<answer, spc, returned>>
         ELSE LET pos == top.guesses[top.c + 1][1]
                  n == top.guesses[top.c + 1][2]
                  workspace == guessed(top.board, pos, n)
              IN  \E r \in deduce(workspace) :
                    LET advanced ==
                          Append(rest, Frame(top.guesses, top.c + 1,
                                             boardheld(top.board, r.board)))
                    IN  IF r.guesses.none
                        THEN /\ remembered' = advanced
                             /\ answer' = r.board
                             /\ spc' = "ret"
                             /\ returned' = Append(returned, r.board)
                        ELSE /\ remembered' = Append(advanced,
                                                     Frame(r.guesses.opts, 0, r.board))
                             /\ UNCHANGED <<answer, spc, returned>>
  /\ UNCHANGED <<original, chk, rate, make, parse>>

\* ------------------------------------------- the search driven by a caller

Init ==
  /\ original \in Inputs
  /\ SearchIdle
  /\ chk = Idle /\ rate = Idle /\ make = Idle /\ parse = Idle

\* state, answer = solveboard(board)
CallSolveBoard ==
  /\ spc = "idle"
  /\ solveboard(original)
  /\ UNCHANGED callerVars

\* state, answer = solvenext(state)
CallSolveNext ==
  /\ spc = "ret"
  /\ Len(returned) < MaxCalls
  /\ solvenext
  /\ UNCHANGED callerVars

Next ==
  \/ CallSolveBoard
  \/ CallSolveNext
  \/ SolveNextEmpty
  \/ SolveNextTurn

Spec == Init /\ [][Next]_vars

\* --------------------------------------------- deduce on its own, at line 93

\* The boards that keep at most MaxClues cells of a solved grid.
MaxClues == 2

SparseInputs ==
  {Blanked(g, Positions \ keep) :
     g \in Grids, keep \in {k \in SUBSET Positions : Cardinality(k) <= MaxClues}}

\* solveboard from its call to the frame made of what deduce returns, for the
\* input boards of the search and the sparse ones.
InitDeduce ==
  /\ original \in Inputs \cup SparseInputs
  /\ SearchIdle
  /\ chk = Idle /\ rate = Idle /\ make = Idle /\ parse = Idle

NextDeduce == CallSolveBoard

SpecDeduce == InitDeduce /\ [][NextDeduce]_vars

\* ------------------------------------------- the search run to its return

\* solveboard and solvenext as in Spec, on the boards of the window.
InitRun ==
  /\ original \in WindowInputs \cup {TwiceBoard}
  /\ SearchIdle
  /\ chk = Idle /\ rate = Idle /\ make = Idle /\ parse = Idle

NextRun ==
  \/ CallSolveBoard
  \/ CallSolveNext
  \/ SolveNextEmpty
  \/ SolveNextTurn

\* The states in which a turn of the loop can be taken.  A turn always changes
\* the stack: it takes the top frame off or pushes it back with c + 1, deduce
\* having at least one outcome on every board.
TurnEnabled == spc = "loop" /\ Len(remembered) > 0

\* WF_vars(SolveNextTurn), with ENABLED <<SolveNextTurn>>_vars written as
\* TurnEnabled.
TurnIsTaken == []<>(~TurnEnabled) \/ []<><<SolveNextTurn>>_vars

\* The interpreter runs the loop of solvenext on: a turn that can be taken is
\* taken, and so is the return when the stack is empty.  That is the weak
\* fairness of the two actions of the loop.  A caller need not call again.
SpecRun ==
  /\ InitRun
  /\ [][NextRun]_vars
  /\ WF_vars(SolveNextEmpty)
  /\ TurnIsTaken

\* ------------------------------------------------------------ checkpuzzle

\* state, answer = solveboard(puzzle).  puzzle and solveboard's original are
\* one list.
CheckSolveBoard ==
  /\ chk.pc = "call"
  /\ solveboard(chk.puzzle)
  /\ chk' = [chk EXCEPT !.pc = "first", !.puzzle = original']
  /\ UNCHANGED <<rate, make, parse>>

\* The first solution is back: return -1 without one or with one that does not
\* match board; otherwise difficulty = len(state) and solvenext(state).
CheckFirst ==
  /\ chk.pc = "first"
  /\ spc = "ret"
  /\ IF answer = NoBoard \/ (chk.board # NoBoard /\ ~boardmatches(chk.board, answer))
     THEN /\ chk' = [pc |-> "done", puzzle |-> chk.puzzle, board |-> chk.board,
                     rating |-> -1]
          /\ UNCHANGED searchVars
     ELSE /\ chk' = [pc |-> "second", puzzle |-> chk.puzzle, board |-> chk.board,
                     difficulty |-> Len(remembered)]
          /\ solvenext
  /\ UNCHANGED <<rate, make, parse>>

\* The second search is back: return -1 with a second solution, else difficulty.
CheckSecond ==
  /\ chk.pc = "second"
  /\ spc = "ret"
  /\ chk' = [pc |-> "done", puzzle |-> chk.puzzle, board |-> chk.board,
             rating |-> IF answer # NoBoard THEN -1 ELSE chk.difficulty]
  /\ UNCHANGED <<original, remembered, answer, spc, returned, rate, make, parse>>

\* The targets checkpuzzle is called with: None or a solved grid.
Targets == {NoBoard} \cup Grids

CheckInputs == WindowInputs \cup {TwiceBoard}

InitCheck ==
  /\ original = EmptyBoard
  /\ SearchIdle
  /\ chk \in {[pc |-> "call", puzzle |-> b, board |-> t] : b \in CheckInputs, t \in Targets}
  /\ rate = Idle /\ make = Idle /\ parse = Idle

NextCheck ==
  \/ CheckSolveBoard
  \/ SolveNextEmpty
  \/ SolveNextTurn
  \/ CheckFirst
  \/ CheckSecond

SpecCheck == InitCheck /\ [][NextCheck]_vars

\* ------------------------------------------------------------- ratepuzzle

\* ratepuzzle is called with 1 .. MaxSamples samples.
MaxSamples == 2

\* The rating of a puzzle without solution were it 0.
MinusOneAsZero == [num |-> 0, den |-> 1]

\* Python's -1 and float(total) / samples, as fractions.
MinusOne == [num |-> -1, den |-> 1]

Mean(total, samples) == [num |-> total, den |-> samples]

\* for i in range(samples): state, answer = solveboard(puzzle).  puzzle and
\* solveboard's original are one list.
RateSolveBoard ==
  /\ rate.pc = "call"
  /\ rate.i < rate.samples
  /\ solveboard(rate.puzzle)
  /\ rate' = [rate EXCEPT !.pc = "sample", !.puzzle = original']
  /\ UNCHANGED <<chk, make, parse>>

\* if answer is None: return -1; total += len(state); after the last sample
\* return float(total) / samples.  The search's variables are dead from here on.
RateSample ==
  /\ rate.pc = "sample"
  /\ spc = "ret"
  /\ IF answer = NoBoard
     THEN rate' = [rate EXCEPT !.pc = "done", !.rating = MinusOne]
     ELSE IF rate.i + 1 < rate.samples
          THEN rate' = [rate EXCEPT !.pc = "call", !.i = @ + 1,
                                    !.total = @ + Len(remembered)]
          ELSE rate' = [rate EXCEPT !.pc = "done", !.i = @ + 1,
                                    !.total = @ + Len(remembered),
                                    !.rating = Mean(rate.total + Len(remembered),
                                                    rate.samples)]
  /\ remembered' = << >>
  /\ answer' = NoBoard
  /\ spc' = "idle"
  /\ returned' = << >>
  /\ UNCHANGED <<original, chk, make, parse>>

InitRate ==
  /\ original = EmptyBoard
  /\ SearchIdle
  /\ rate \in {[pc |-> "call", puzzle |-> b, samples |-> n, i |-> 0, total |-> 0,
                rating |-> Mean(0, 1)] : b \in CheckInputs, n \in 1 .. MaxSamples}
  /\ chk = Idle /\ make = Idle /\ parse = Idle

NextRate ==
  \/ RateSolveBoard
  \/ SolveNextEmpty
  \/ SolveNextTurn
  \/ RateSample

SpecRate == InitRate /\ [][NextRate]_vars

\* ------------------------------------------------------------- makepuzzle

\* random.sample(range(81), 81) draws any order of the cells; the orders
\* checked are the strided ones, (start + i * stride) % Cells, stride odd.
Strided(start, stride) == [i \in 1 .. Cells |-> (start + (i - 1) * stride) % Cells]

\* random.shuffle(puzzle) draws any order of the clue list; the orders checked
\* are its rotations by 0 .. MaxRot places.
MaxRot == 2

Rotated(t, r) == [i \in 1 .. Len(t) |-> t[((i - 1 + r) % Len(t)) + 1]]

\* del puzzle[i], i counted from 0.
Deleted(t, i) == [j \in 1 .. (Len(t) - 1) |-> IF j <= i THEN t[j] ELSE t[j + 1]]

\* The removal loop were every clue put back.
keepalways(puzzle, e, rating) == Append(puzzle, e)

\* if rating == -1: puzzle.append(e)
keepentry(puzzle, e, rating) == IF rating = -1 THEN Append(puzzle, e) ELSE puzzle

\* The walk were every position of the order made a clue.
needsclueever(deduced, pos) == TRUE

\* The walk were the test the other way round.
needscluenever(deduced, pos) == deduced[pos] # None

\* if deduced[pos] is None
needsclue(deduced, pos) == deduced[pos] = None

\* Body of "for pos in order" for the next pos of the order.
MakeWalk ==
  /\ make.pc = "walk"
  /\ make.k < Cells
  /\ LET pos == make.order[make.k + 1]
     IN  IF needsclue(make.deduced, pos)
         THEN \E r \in deduce([make.deduced EXCEPT ![pos] = make.board[pos]]) :
                make' = [make EXCEPT !.k = @ + 1,
                                     !.puzzle = Append(@, <<pos, make.board[pos]>>),
                                     !.deduced = r.board]
         ELSE make' = [make EXCEPT !.k = @ + 1]
  /\ UNCHANGED <<original, remembered, answer, spc, returned, chk, rate, parse>>

\* random.shuffle(puzzle), and the removal loop starts at the last clue.
MakeShuffle ==
  /\ make.pc = "walk"
  /\ make.k = Cells
  /\ \E r \in 0 .. MaxRot :
       make' = [pc |-> "remove", board |-> make.board, order |-> make.order,
                deduced |-> make.deduced, puzzle |-> Rotated(make.puzzle, r),
                i |-> Len(make.puzzle) - 1]
  /\ UNCHANGED <<original, remembered, answer, spc, returned, chk, rate, parse>>

\* e = puzzle[i]; del puzzle[i]; checkpuzzle(boardforentries(puzzle), board)
MakeRemove ==
  /\ make.pc = "remove"
  /\ make.i >= 0
  /\ LET puzzle == Deleted(make.puzzle, make.i)
     IN  /\ make' = [pc |-> "check", board |-> make.board, order |-> make.order,
                     deduced |-> make.deduced, puzzle |-> puzzle, i |-> make.i,
                     e |-> make.puzzle[make.i + 1]]
         /\ chk' = [pc |-> "call", puzzle |-> boardforentries(puzzle),
                    board |-> make.board]
  /\ UNCHANGED <<original, remembered, answer, spc, returned, rate, parse>>

\* checkpuzzle is back: keep e when the rating is -1, and go on to i - 1.
\* board is the list checkpuzzle was given as its board.
MakeChecked ==
  /\ make.pc = "check"
  /\ chk.pc = "done"
  /\ make' = [pc |-> "remove", board |-> chk.board, order |-> make.order,
              deduced |-> make.deduced,
              puzzle |-> keepentry(make.puzzle, make.e, chk.rating),
              i |-> make.i - 1]
  /\ chk' = Idle
  /\ original' = EmptyBoard
  /\ remembered' = << >>
  /\ answer' = NoBoard
  /\ spc' = "idle"
  /\ returned' = << >>
  /\ UNCHANGED <<rate, parse>>

\* return boardforentries(puzzle)
MakeReturn ==
  /\ make.pc = "remove"
  /\ make.i < 0
  /\ make' = [pc |-> "done", board |-> make.board, order |-> make.order,
              deduced |-> make.deduced, puzzle |-> make.puzzle,
              result |-> boardforentries(make.puzzle)]
  /\ UNCHANGED <<original, remembered, answer, spc, returned, chk, rate, parse>>

\* The solved boards and the orders makepuzzle is run with.
MakeInputs ==
  {[board |-> GridA, order |-> Strided(7, 13)],
   [board |-> GridB, order |-> Strided(4, 1)],
   [board |-> GridA, order |-> Strided(11, 13)]}

InitMake ==
  /\ original = EmptyBoard
  /\ SearchIdle
  /\ chk = Idle /\ rate = Idle /\ parse = Idle
  /\ make \in {[pc |-> "walk", board |-> m.board, order |-> m.order, k |-> 0,
                puzzle |-> << >>, deduced |-> EmptyBoard] : m \in MakeInputs}

NextMake ==
  \/ MakeWalk
  \/ MakeShuffle
  \/ MakeRemove
  \/ CheckSolveBoard
  \/ SolveNextEmpty
  \/ SolveNextTurn
  \/ CheckFirst
  \/ CheckSecond
  \/ MakeChecked
  \/ MakeReturn

SpecMake == InitMake /\ [][NextMake]_vars

\* ------------------------------------------- the callers of solveboard

\* checkpuzzle, ratepuzzle and makepuzzle, each run from its call.
InitCallers == InitCheck \/ InitRate \/ InitMake

NextCallers ==
  \/ CheckSolveBoard
  \/ CheckFirst
  \/ CheckSecond
  \/ RateSolveBoard
  \/ RateSample
  \/ MakeWalk
  \/ MakeShuffle
  \/ MakeRemove
  \/ MakeChecked
  \/ MakeReturn
  \/ SolveNextEmpty
  \/ SolveNextTurn

SpecCallers == InitCallers /\ [][NextCallers]_vars

\* The walk alone, over every strided order of the cells of both grids.
Strides == {stride \in 1 .. (Cells - 1) : stride % 2 = 1}

WalkInputs ==
  {[board |-> g, order |-> Strided(start, stride)] :
     g \in Grids, start \in Positions, stride \in Strides}

InitWalk ==
  /\ original = EmptyBoard
  /\ SearchIdle
  /\ chk = Idle /\ rate = Idle /\ parse = Idle
  /\ make \in {[pc |-> "walk", board |-> m.board, order |-> m.order, k |-> 0,
                puzzle |-> << >>, deduced |-> EmptyBoard] : m \in WalkInputs}

NextWalk == MakeWalk

SpecWalk == InitWalk /\ [][NextWalk]_vars

\* ------------------------------------------------------------- parseboard

\* A text is a sequence of characters, each a string of length one.  Of the
\* characters str.split() splits at, the texts hold the space and the newline.
Whitespace == {" ", "\n"}

Separators == {"|", "-", "=", "+"}

DigitChars == <<"1", "2", "3", "4", "5", "6", "7", "8", "9">>

\* int(x)
int(x) == CHOOSE d \in 1 .. Len(DigitChars) : DigitChars[d] = x

\* str.split(): the maximal runs of characters that are not whitespace.
splitstep(st, x) ==
  IF x \in Whitespace
  THEN IF st.word = << >> THEN st
       ELSE [words |-> Append(st.words, st.word), word |-> << >>]
  ELSE [st EXCEPT !.word = Append(@, x)]

\* split were the text taken as one word.
splitwhole(str) == IF str = << >> THEN << >> ELSE <<str>>

split(str) ==
  LET st == ForRange(LAMBDA s, i : splitstep(s, str[i + 1]),
                     [words |-> << >>, word |-> << >>], 0, Len(str))
  IN  IF st.word = << >> THEN st.words ELSE Append(st.words, st.word)

\* Body of "for x in w" for one x; nothing runs after the return.
parsechar(st, x) ==
  IF st.returned \/ x \in Separators THEN st
  ELSE LET result == Append(st.result,
                            IF \E d \in 1 .. Len(DigitChars) : DigitChars[d] = x
                            THEN int(x) - 1 ELSE None)
       IN  [result |-> result, returned |-> Len(result) = Cells]

parseword(st, w) == ForRange(LAMBDA s, i : parsechar(s, w[i + 1]), st, 0, Len(w))

\* parseboard(str): the list of cells, or None when the loops end without the
\* return.  The result is indexed from 1 here.
parseboard(str) ==
  LET words == split(str)
      st == ForRange(LAMBDA s, i : parseword(s, words[i + 1]),
                     [result |-> << >>, returned |-> FALSE], 0, Len(words))
  IN  IF st.returned THEN [none |-> FALSE, cells |-> st.result]
      ELSE [none |-> TRUE, cells |-> << >>]

\* The texts are made of at most MaxBlocks of these pieces.
MaxBlocks == 5

Blocks ==
  {<<"1", " ", "2", " ", "3", " ", "4", "\n">>,
   <<"|", ".", "2", "|", "3", "_", "|">>,
   <<"-", "+", "=", "\n">>,
   <<"9", "x", "0">>,
   <<"4", "3", "2", "1">>}

RECURSIVE TextsOf(_)
TextsOf(n) ==
  IF n = 0 THEN {<< >>}
  ELSE LET shorter == TextsOf(n - 1)
       IN  shorter \cup {t \o b : t \in shorter, b \in Blocks}

Texts == TextsOf(MaxBlocks)

\* result = parseboard(str); the function raises nothing.
ParseBoard ==
  /\ parse.pc = "call"
  /\ parse' = [pc |-> "done", str |-> parse.str, result |-> parseboard(parse.str),
               raised |-> "nothing"]
  /\ UNCHANGED <<original, remembered, answer, spc, returned, chk, rate, make>>

InitParse ==
  /\ original = EmptyBoard
  /\ SearchIdle
  /\ chk = Idle /\ rate = Idle /\ make = Idle
  /\ parse \in {[pc |-> "call", str |-> t] : t \in Texts}

NextParse == ParseBoard

SpecParse == InitParse /\ [][NextParse]_vars

\* ------------------------------------------- what valid and solved mean

Digits == 0 .. (Side - 1)

RowOf(pos) == pos \div Side

ColOf(pos) == pos % Side

BoxOf(pos) == (RowOf(pos) \div BoxSize) * BoxSize + (ColOf(pos) \div BoxSize)

\* The other cells of pos's row, column and box.
Peers ==
  [pos \in Positions |->
     {q \in Positions :
        /\ q # pos
        /\ RowOf(q) = RowOf(pos) \/ ColOf(q) = ColOf(pos) \/ BoxOf(q) = BoxOf(pos)}]

\* No cell is empty and every row, column and box holds every digit once.
IsSolved(b) ==
  /\ b # NoBoard
  /\ \A pos \in Positions : b[pos] \in Digits
  /\ \A pos \in Positions : \A q \in Peers[pos] : b[q] # b[pos]

\* Some digit stands twice in a row, a column or a box.
HasDuplicate(b) ==
  \E pos \in Positions : b[pos] # None /\ \E q \in Peers[pos] : b[q] = b[pos]

\* g keeps every filled cell of b.
Agrees(b, g) == \A pos \in Positions : b[pos] # None => g[pos] = b[pos]

\* The valid completions of b from cell pos on, the cells before pos being final.
RECURSIVE Extend(_, _)
Extend(b, pos) ==
  IF pos = Cells THEN {b}
  ELSE IF b[pos] # None THEN Extend(b, pos + 1)
  ELSE UNION {Extend([b EXCEPT ![pos] = d], pos + 1) :
                d \in {d \in Digits : \A q \in Peers[pos] : b[q] # d}}

\* The valid completions of b: the solved boards that keep b's filled cells.
Completions(b) == IF HasDuplicate(b) THEN {} ELSE Extend(b, 0)

\* The filled cells of b.
Filled(b) == {pos \in Positions : b[pos] # None}

\* The cell a character stands for: the digits 1 to 9, anything else empty.
CellOf(x) ==
  CASE x = "1" -> 0 [] x = "2" -> 1 [] x = "3" -> 2 [] x = "4" -> 3 [] x = "5" -> 4
    [] x = "6" -> 5 [] x = "7" -> 6 [] x = "8" -> 7 [] x = "9" -> 8 [] OTHER -> None

\* The cells of a text read character by character, the characters of the set
\* skipped standing for nothing.
ReadCells(str, skipped) ==
  LET kept == SelectSeq(str, LAMBDA x : x \notin skipped)
  IN  [i \in 1 .. Len(kept) |-> CellOf(kept[i])]

\* The digits no peer of pos holds: the candidates of the cell.
Candidates(b, pos) == {d \in Digits : \A q \in Peers[pos] : b[q] # d}

\* The rows, the columns and the boxes, each the set of its cells.
Houses ==
  {{pos \in Positions : RowOf(pos) = x} : x \in Lines}
    \cup {{pos \in Positions : ColOf(pos) = x} : x \in Lines}
    \cup {{pos \in Positions : BoxOf(pos) = x} : x \in Lines}

\* The empty cells of the house that can take the digit d.
Spots(b, house, d) == {pos \in house : b[pos] = None /\ d \in Candidates(b, pos)}

\* The frames of the stack that hold a list of guesses that is not empty.
Branching == {i \in 1 .. Len(remembered) : Len(remembered[i].guesses) > 0}

\* The indices of the history at which a call returned a board.
Solutions == {i \in 1 .. Len(returned) : returned[i] # NoBoard}

\* ----------------------------------------------------------------- claims

\* C1: every board that solveboard or a later solvenext call returns as a
\* solution is completely filled and valid, whatever the input board.
C1_ReturnedBoardsAreSolved == \A i \in Solutions : IsSolved(returned[i])

\* C1 witness: a solvenext call on a returned stack has returned a second board.
C1_Witness ==
  /\ Len(returned) >= 2
  /\ returned[1] # NoBoard
  /\ returned[2] # NoBoard

\* C2: the puzzle makepuzzle returns keeps the board's digits in its filled
\* cells and has the board as its one and only valid completion.
C2_PuzzleHasOnlyTheBoard ==
  make.pc = "done"
    => /\ Agrees(make.result, make.board)
       /\ Completions(make.result) = {make.board}

\* C2 witness: makepuzzle has returned a puzzle from which the removal loop
\* took two clues.
C2_Witness ==
  /\ make.pc = "done"
  /\ make.board = GridB
  /\ Cardinality(Filled(make.result)) = 4

\* C3: checkpuzzle returns -1 exactly when the puzzle has no valid completion,
\* or two or more, or one that differs from the target given; otherwise it
\* returns a number that is not negative.
C3_RatingTellsUniqueness ==
  chk.pc = "done"
    => LET completions == Completions(chk.puzzle)
       IN  IF /\ Cardinality(completions) = 1
              /\ chk.board # NoBoard => completions = {chk.board}
           THEN chk.rating >= 0
           ELSE chk.rating = -1

\* C3 witness: checkpuzzle has returned on a puzzle with too few clues to
\* force one completion.
C3_Witness ==
  /\ chk.pc = "done"
  /\ chk.rating = -1
  /\ Cardinality(Completions(chk.puzzle)) >= 2

\* C3, the other cases: one completion and a rating that is not negative; one
\* completion that is not the target.
C3_WitnessUnique ==
  /\ chk.pc = "done"
  /\ chk.rating >= 0
  /\ Filled(chk.puzzle) # Positions

C3_WitnessOtherTarget ==
  /\ chk.pc = "done"
  /\ chk.board # NoBoard
  /\ Cardinality(Completions(chk.puzzle)) = 1
  /\ Completions(chk.puzzle) # {chk.board}

\* C4: for a board with no valid completion (a digit standing twice, or any
\* other), solveboard returns the empty stack and no solution.
C4_UnsolvableReturnsNothing ==
  (spc = "ret" /\ Len(returned) = 1 /\ Completions(original) = {})
    => (answer = NoBoard /\ remembered = << >>)

\* C4 witness: solveboard has returned on a board holding a digit twice.
C4_Witness ==
  /\ spc = "ret"
  /\ Len(returned) = 1
  /\ HasDuplicate(original)
  /\ answer = NoBoard

\* C4 second case: solveboard has returned on a board without duplicates that
\* has no completion.
C4_WitnessHidden ==
  /\ spc = "ret"
  /\ Len(returned) = 1
  /\ ~HasDuplicate(original)
  /\ Completions(original) = {}

\* C5: the solutions of one sequence of calls are pairwise different and keep
\* the filled cells of the input; a call that returns no solution returns the
\* empty stack, and so does every later call.
C5_DistinctThenExhausted ==
  /\ \A i \in Solutions : Agrees(original, returned[i])
  /\ \A i, j \in Solutions : i # j => returned[i] # returned[j]
  /\ \A i, j \in 1 .. Len(returned) :
       (i < j /\ returned[i] = NoBoard) => returned[j] = NoBoard
  /\ (spc = "ret" /\ answer = NoBoard) => remembered = << >>

\* C5 witness: two solutions, then a call without solution, then another one.
C5_Witness ==
  /\ Len(returned) = 4
  /\ returned[1] # NoBoard
  /\ returned[2] # NoBoard
  /\ returned[3] = NoBoard
  /\ returned[4] = NoBoard

\* C6: the puzzle makepuzzle returns is locally minimal: emptying any one of
\* its filled cells leaves a board whose completions are not the board alone,
\* the boards on which checkpuzzle returns -1.
C6_NoClueCanBeDropped ==
  make.pc = "done"
    => \A pos \in Filled(make.result) :
         Completions([make.result EXCEPT ![pos] = None]) # {make.board}

\* C6 witness: makepuzzle has returned a puzzle from which the removal loop
\* took one clue and kept the others, each tested once.
C6_Witness ==
  /\ make.pc = "done"
  /\ make.board = GridA
  /\ Cardinality(Filled(make.result)) = 5
  /\ Len(make.puzzle) = 5

\* C7: with samples >= 1, ratepuzzle returns -1 on a puzzle without valid
\* completion, and on every other puzzle the mean of the stack lengths, a
\* number that is not negative.
C7_RatingSign ==
  rate.pc = "done"
    => IF Completions(rate.puzzle) = {}
       THEN rate.rating.num = -1 /\ rate.rating.den = 1
       ELSE /\ rate.rating.num >= 0
            /\ rate.rating.den = rate.samples
            /\ rate.i = rate.samples

\* C7 witness: ratepuzzle has returned a positive mean of two runs.
C7_Witness ==
  /\ rate.pc = "done"
  /\ rate.samples = 2
  /\ rate.rating.num > 0

\* C7, the other case: ratepuzzle has returned on a puzzle without completion.
C7_WitnessUnsolvable ==
  /\ rate.pc = "done"
  /\ Completions(rate.puzzle) = {}

\* C8: parsing a text that ends before a board's worth of significant symbols
\* (the characters other than | - = +) fails with an InvalidBoardFormat error.
C8_ShortTextIsRejected ==
  (parse.pc = "done" /\ Len(ReadCells(parse.str, Separators)) < Cells)
    => parse.raised = "InvalidBoardFormat"

\* C8 witness: parseboard has returned on a text that holds some symbols and
\* fewer than a board's worth of them, without raising.
C8_Witness ==
  /\ parse.pc = "done"
  /\ Len(parse.str) > 0
  /\ Len(ReadCells(parse.str, Separators)) < Cells
  /\ parse.result.none
  /\ parse.raised = "nothing"

\* C8, what the code does instead: on a text with too few symbols parseboard
\* raises nothing and returns None.
C8_ShortTextReturnsNone ==
  (parse.pc = "done" /\ Len(ReadCells(parse.str, Separators \cup Whitespace)) < Cells)
    => parse.raised = "nothing" /\ parse.result.none

\* C9 as stated: reading character by character, a digit gives digit - 1, the
\* separators | - = + give nothing, every other character gives an empty cell,
\* and the result is the first board's worth of the cells so produced.
C9_EveryOtherCharacterIsACell ==
  parse.pc = "done"
    => LET cells == ReadCells(parse.str, Separators)
       IN  Len(cells) >= Cells
             => /\ ~parse.result.none
                /\ parse.result.cells = SubSeq(cells, 1, Cells)

\* C9 amended: reading character by character, a digit gives digit - 1, the
\* separators | - = + and the whitespace characters give nothing, every other
\* character gives an empty cell; when a board's worth of cells is so produced
\* the result is the first of them, the rest of the text being ignored.
C9_WhitespaceIsSkippedToo ==
  parse.pc = "done"
    => LET cells == ReadCells(parse.str, Separators \cup Whitespace)
       IN  Len(cells) >= Cells
             => /\ ~parse.result.none
                /\ parse.result.cells = SubSeq(cells, 1, Cells)

\* C9 witness: a board has been parsed from a text with whitespace, separators,
\* a character for an empty cell and more cells than a board holds.
C9_Witness ==
  /\ parse.pc = "done"
  /\ ~parse.result.none
  /\ \E i \in 1 .. Len(parse.str) : parse.str[i] \in Whitespace
  /\ \E i \in 1 .. Len(parse.str) : parse.str[i] \in Separators
  /\ \E i \in 1 .. Cells : parse.result.cells[i] = None
  /\ Len(ReadCells(parse.str, Separators \cup Whitespace)) > Cells

\* C10: on a completely and validly filled board solveboard returns that board,
\* and the following solvenext call returns no solution.
C10_SolvedBoardIsItsOwnSolution ==
  (IsSolved(original) /\ Len(returned) >= 1)
    => /\ returned[1] = original
       /\ Len(returned) >= 2 => returned[2] = NoBoard

\* C10 witness: solveboard and solvenext have both returned on a solved board.
C10_Witness ==
  /\ IsSolved(original)
  /\ Len(returned) = 2
  /\ spc = "ret"

\* C11: the puzzle makepuzzle returns has fewer filled cells than the board:
\* the walk over the order leaves at least one position out of the clue list.
C11_FewerCluesThanCells ==
  /\ (make.pc = "walk" /\ make.k = Cells) => Len(make.puzzle) < Cells
  /\ make.pc = "done" => Cardinality(Filled(make.result)) < Cells

\* C11 witness: the walk is over, having made clues of some positions and
\* passed over the others.
C11_Witness ==
  /\ make.pc = "walk"
  /\ make.k = Cells
  /\ Len(make.puzzle) > 0
  /\ Filled(make.deduced) = Positions

\* C16: when the walk of makepuzzle is over, deduce run on the board that holds
\* the clues alone fills every cell with the digit of the solved board and
\* returns None, no list of guesses.
C16_CluesAloneSuffice ==
  (make.pc = "walk" /\ make.k = Cells)
    => /\ make.deduced = make.board
       /\ \A r \in deduce(boardforentries(make.puzzle)) :
            r.guesses.none /\ r.board = make.board

\* C16 witness: the walk is over and some cell was filled into the cache by a
\* deduce call made before the last clue was added.
C16_Witness ==
  /\ make.pc = "walk"
  /\ make.k = Cells
  /\ Len(make.puzzle) >= 2
  /\ \E j \in 1 .. (Len(make.puzzle) - 1) :
       \E r \in deduce(boardforentries(SubSeq(make.puzzle, 1, j))) :
         Cardinality(Filled(r.board)) > j

\* C12: a list of guesses deduce returns that is not empty has k >= 2 guesses,
\* each naming a cell empty in the board as deduce left it and a candidate of
\* that cell, and k is the least count there is: every empty cell has k
\* candidates or more, and every digit missing from a row, column or box has k
\* cells or more there that can take it.
C12_GuessesAreTheFewest ==
  \A i \in Branching :
    LET board == remembered[i].board
        guesses == remembered[i].guesses
        k == Len(guesses)
    IN  /\ k >= 2
        /\ \A j \in 1 .. k :
             /\ board[guesses[j][1]] = None
             /\ guesses[j][2] \in Candidates(board, guesses[j][1])
        /\ \A pos \in Positions :
             board[pos] = None => Cardinality(Candidates(board, pos)) >= k
        /\ \A house \in Houses : \A d \in Digits :
             (\A pos \in house : board[pos] # d)
               => Cardinality(Spots(board, house, d)) >= k

\* C12 witness: the stack holds a list of two guesses made on a board that has
\* an empty cell of three candidates or more.
C12_Witness ==
  \E i \in Branching :
    /\ Len(remembered[i].guesses) = 2
    /\ \E pos \in Positions :
         /\ remembered[i].board[pos] = None
         /\ Cardinality(Candidates(remembered[i].board, pos)) >= 3

\* C13 as stated: at every step of the search no frame of the stack holds an
\* empty list of guesses.
C13_NoFrameWithoutGuesses ==
  \A i \in 1 .. Len(remembered) : Len(remembered[i].guesses) > 0

\* A frame without guesses is the top of the stack, and its count is 0.
EmptyFrameIsOnTop ==
  \A i \in 1 .. Len(remembered) :
    Len(remembered[i].guesses) = 0 => (i = Len(remembered) /\ remembered[i].c = 0)

\* A step taken with a frame without guesses on top takes that frame off and
\* leaves the rest of the stack.
EmptyFrameIsDiscarded ==
  (Len(remembered) > 0 /\ Len(remembered[Len(remembered)].guesses) = 0)
    => remembered' = SubSeq(remembered, 1, Len(remembered) - 1)

\* C13 amended: every frame of a stack that solveboard or solvenext returns
\* holds a list of guesses that is not empty.  During the search a frame with
\* the empty list is pushed when deduce returns []; it is only ever the top of
\* the stack, and the next turn of the loop takes it off without trying a guess.
C13_EmptyFrameNeverReturned ==
  /\ [](spc = "ret" => C13_NoFrameWithoutGuesses)
  /\ []EmptyFrameIsOnTop
  /\ [][EmptyFrameIsDiscarded]_vars

\* C13 witness: deduce has returned [] on the copy made for a guess, and the
\* frame pushed for it stands on top of the frame of the guess.
C13_Witness ==
  /\ spc = "loop"
  /\ Len(remembered) >= 2
  /\ Len(remembered[Len(remembered)].guesses) = 0

\* C14: no two frames of the stack hold equal boards, and the board of each
\* frame has strictly more filled cells than the board of the frame below it.
C14_BoardsGrowUpTheStack ==
  /\ \A i \in 1 .. Len(remembered) - 1 :
       Cardinality(Filled(remembered[i + 1].board))
         > Cardinality(Filled(remembered[i].board))
  /\ \A i, j \in 1 .. Len(remembered) :
       i # j => remembered[i].board # remembered[j].board

\* C14 witness: three frames are on the stack.
C14_Witness ==
  /\ Len(remembered) >= 3
  /\ \A i \in 1 .. Len(remembered) : Len(remembered[i].guesses) > 0

\* A step leaves the board of every frame that stays on the stack as it was:
\* the frames under the top are untouched, and the top comes back with its
\* count advanced and its board unchanged.
FramesKeepTheirBoards ==
  \A i \in 1 .. Len(remembered) :
    i <= Len(remembered') => remembered'[i].board = remembered[i].board

\* No two frames of the stack hold the same board.
NoBoardInTwoFrames ==
  \A i, j \in 1 .. Len(remembered) :
    i < j => remembered[i].board # remembered[j].board

\* The board returned as the answer is the board of no frame of the stack
\* returned with it.
AnswerIsNoFramesBoard ==
  (spc = "ret" /\ answer # NoBoard)
    => \A i \in 1 .. Len(remembered) : remembered[i].board # answer

DeducedBoard ==
  IF answer # NoBoard THEN answer ELSE remembered[1].board

\* C17: on every outcome of deduce (None, [], a list of guesses) the board it
\* leaves has, in every cell that was filled when it was called, the digit that
\* cell had.
C17_FilledCellsAreKept ==
  spc # "idle" => Agrees(original, DeducedBoard)

\* C17 witness: deduce was called on a board with filled cells, filled further
\* cells and then returned [].
C17_Witness ==
  /\ spc = "loop"
  /\ remembered[1].guesses = << >>
  /\ Filled(original) # {}
  /\ Filled(original) # Filled(remembered[1].board)

\* A step of a call leaves the boards the call was given as they were: the
\* puzzle and the board of checkpuzzle, the puzzle of ratepuzzle, the board of
\* makepuzzle, and the original of solveboard.
InputsAreKept ==
  /\ (chk.pc # "idle" /\ chk'.pc # "idle")
       => (chk'.puzzle = chk.puzzle /\ chk'.board = chk.board)
  /\ (rate.pc # "idle" /\ rate'.pc # "idle") => rate'.puzzle = rate.puzzle
  /\ (make.pc # "idle" /\ make'.pc # "idle") => make'.board = make.board
  /\ (spc # "idle" /\ spc' # "idle") => original' = original

\* Each call of solveboard is made on the caller's board as the caller got it.
SolveBoardSeesTheInput ==
  /\ (chk.pc = "call" /\ chk'.pc = "first") => original' = chk.puzzle
  /\ (rate.pc = "call" /\ rate'.pc = "sample") => original' = rate.puzzle

RECURSIVE PassesFill(_)
PassesFill(board) ==
  LET st == deducepass(board)
  IN  IF st.contra \/ st.stuck THEN TRUE
      ELSE /\ Filled(board) \subseteq Filled(st.board)
           /\ Filled(board) # Filled(st.board)
           /\ PassesFill(st.board)

\* The boards deduce is called on from a state: the original, and the board of
\* the top frame with its next guess.
DeducePassesFill ==
  /\ PassesFill(original)
  /\ (spc = "loop" /\ Len(remembered) > 0
        /\ remembered[Len(remembered)].c < Len(remembered[Len(remembered)].guesses))
       => LET top == remembered[Len(remembered)]
          IN  PassesFill(guessed(top.board, top.guesses[top.c + 1][1],
                                 top.guesses[top.c + 1][2]))

\* A turn of solvenext's loop takes the top frame off, or advances its count
\* by one, to at most the number of its guesses, and then returns or pushes a
\* frame whose board has more filled cells than the board of the frame under
\* it.
TurnMakesProgress ==
  (spc = "loop" /\ Len(remembered) > 0) =>
    LET n == Len(remembered)
        top == remembered[n]
    IN  \/ remembered' = SubSeq(remembered, 1, n - 1)
        \/ /\ Len(remembered') >= n
           /\ remembered'[n].guesses = top.guesses
           /\ remembered'[n].c = top.c + 1
           /\ remembered'[n].c <= Len(top.guesses)
           /\ \/ Len(remembered') = n /\ spc' = "ret"
              \/ /\ Len(remembered') = n + 1
                 /\ Cardinality(Filled(remembered'[n + 1].board))
                      > Cardinality(Filled(top.board))

\* C19: every call returns.  Each pass of deduce that does not return fills a
\* cell that was empty when it began; each turn of solvenext's loop takes a
\* frame off, advances a count bounded by the number of guesses, or pushes a
\* frame with more filled cells than the one under it; and a search that has
\* entered the loop returns.
C19_EveryCallReturns ==
  /\ []DeducePassesFill
  /\ [][TurnMakesProgress]_vars
  /\ (spc = "loop") ~> (spc = "ret")

\* C19 witness: deduce needed more than one pass on the original, and the
\* search, resumed after an answer, has run the stack empty and returned.
C19_Witness ==
  /\ spc = "ret"
  /\ answer = NoBoard
  /\ Len(returned) >= 2
  /\ ~deducepass(original).stuck
  /\ ~deducepass(original).contra

=============================================================================
